---- MODULE Spec2Model ----
(***************************************************************************)
(* The AR session hook useARCamera (src/src/hooks/useARCamera.ts): the     *)
(* session flags, the model load (initializeARModel), the per-frame        *)
(* detection loop (detectPoses / startPoseDetection), toggleAR, and the    *)
(* aspect-preserving frame compositor inside detectPoses.                  *)
(* The overlay component ARGlasses (src/unnamed/part_001, two variants of  *)
(* the component in one file) as ARCamera (src/unnamed/part_000) mounts it: *)
(* its asset loader and its keypoint-to-transform mapper.                  *)
(*                                                                         *)
(* The host is single-threaded: every action below is one run of a         *)
(* handler, or of the part of an async function between two awaits.        *)
(* setARState updaters are applied to the current state in order, so a     *)
(* step's updates are folded into one new value of arState.                *)
(* The clean-up of the hook on unmount (l.217-223) ends a behaviour and is  *)
(* not a step of the model.                                                *)
(***************************************************************************)
EXTENDS Integers, Sequences, FiniteSets, TLC

VARIABLES
    arState,                  \* the React state object (useState, l.17-26)
    detectorRef,              \* detectorRef.current is a detector (TRUE) or null
    requestAnimationFrameRef, \* requestAnimationFrameRef.current: a frame id, or NoHandle
    canvasRef,                \* canvasRef.current: <<width, height>>, or NoCanvas
    videoRef,                 \* videoRef.current as the hook sees it (environment)
    rafQueue,                 \* ids of the frame callbacks the host holds pending
    tfReadyPending,           \* initializeARModel runs suspended at `await tf.ready()`
    createDetectorPending,    \* initializeARModel runs suspended at `await createDetector`
    estimatePosesPending,     \* detectPoses runs suspended at `await estimatePoses`
    frameGeometry,            \* source/destination sizes and the rectangle of the last drawImage
    trackingPoints,           \* the keypoints and the strokes of the last drawTrackingPoints call
    canvasContent,            \* whose tracking points lie on the frame the canvas shows (SpecCanvas)
    glasses,                  \* the ARGlasses instance ARCamera renders: its props, refs and state
    loadChains,               \* asset load chains begun since the session last became Active
    lastStep                  \* the handler that ran last, the host calls it made, the detector's result

vars == <<arState, detectorRef, requestAnimationFrameRef, canvasRef, videoRef, rafQueue,
          tfReadyPending, createDetectorPending, estimatePosesPending, frameGeometry,
          trackingPoints, canvasContent, glasses, loadChains, lastStep>>

----------------------------------------------------------------------------
(* Bounds of the model *)

\* initializeARModel runs that may be suspended at once
MaxLoads == 2
\* detection loops (pending frame callbacks plus suspended ticks) that may exist at once
MaxLoops == 2
\* the compositor is checked for every size 1..MaxDim, next to the named sizes
MaxDim == 4
\* the tracking-point renderer is checked for every keypoint list over the first
\* MaxJoints joints of JointNames
MaxJoints == 4
\* the asset loader is checked for every list of 1..MaxPaths candidate paths
MaxPaths == 3
\* loadChains counts up to MaxChains and stays there
MaxChains == 2
\* asset loads of torn-down scenes and of unmounted instances that may be in flight
MaxStale == 2

----------------------------------------------------------------------------
(* Values *)

NoHandle == 0
NoCanvas == <<>>
NoError == "null"
LoadErrorMessage == "Failed to load AR models"
DefaultCanvasWidth == 640
DefaultCanvasHeight == 480

\* A keypoint of the detector: a joint name, a position in source-video pixels, a
\* confidence in hundredths (0 also stands for a keypoint without a score: both are
\* falsy in the `score &&` tests of the code)
Keypoint(name, x, y, score) == [name |-> name, x |-> x, y |-> y, score |-> score]

\* in the choice of a joint's score: the joint is not in the list
Absent == -1

\* a subject facing the camera, both eyes confident
PoseA ==
    [keypoints |-> <<Keypoint("nose", 150, 250, 90),
                     Keypoint("left_eye", 100, 200, 90),
                     Keypoint("right_eye", 200, 200, 90)>>]

\* the same subject moved and turned, the left eye at confidence 0.3
PoseB ==
    [keypoints |-> <<Keypoint("nose", 250, 250, 90),
                     Keypoint("left_eye", 200, 200, 30),
                     Keypoint("right_eye", 300, 300, 90)>>]

\* the lists estimatePoses may resolve with (maxPoses: 1)
PoseResults == {<<>>, <<PoseA>>, <<PoseB>>}

\* videoRef.current: no element; an element with readyState 0 (no metadata, so
\* videoWidth = videoHeight = 0); an element delivering 1280x720 frames
VideoAbsent == [mounted |-> FALSE, readyState |-> 0, videoWidth |-> 0, videoHeight |-> 0]
VideoNotReady == [mounted |-> TRUE, readyState |-> 0, videoWidth |-> 0, videoHeight |-> 0]
VideoPlaying == [mounted |-> TRUE, readyState |-> 4, videoWidth |-> 1280, videoHeight |-> 720]
Videos == {VideoAbsent, VideoNotReady, VideoPlaying}

Step(op, calls, poses) == [op |-> op, calls |-> calls, poses |-> poses]

----------------------------------------------------------------------------
(* Exact rationals <<numerator, denominator>> for the compositor's arithmetic.
   Two different ratios of sizes below 2^26 differ by far more than the spacing of
   doubles, so the comparison of l.99 in doubles is the exact comparison; each
   result of l.94-107 in doubles is the value below up to the rounding of the
   operations that produce it. *)

\* Euclid's algorithm, as a function so that its arguments are values
GCDf[a \in Nat, b \in Nat] == IF b = 0 THEN a ELSE GCDf[b, a % b]

GCD(a, b) == GCDf[a, b]

Abs(n) == IF n < 0 THEN -n ELSE n

\* a number as <<n, d>> in lowest terms, d > 0; a division by zero yields what the
\* doubles of the host yield: <<1, 0>> Infinity, <<-1, 0>> -Infinity, <<0, 0>> NaN
Rat(n, d) ==
    IF d = 0
    THEN <<IF n > 0 THEN 1 ELSE IF n < 0 THEN -1 ELSE 0, 0>>
    ELSE LET g == GCD(Abs(n), Abs(d))
             s == IF d < 0 THEN -1 ELSE 1
         IN  <<(s * n) \div g, (s * d) \div g>>

RInt(n) == <<n, 1>>
RDiv(a, b) == Rat(a[1] * b[2], a[2] * b[1])
RMul(a, b) == Rat(a[1] * b[1], a[2] * b[2])
RSub(a, b) ==
    LET g == GCD(a[2], b[2])
    IN  IF g = 0
        THEN Rat(a[1] * b[2] - b[1] * a[2], a[2] * b[2])
        ELSE Rat(a[1] * (b[2] \div g) - b[1] * (a[2] \div g), (a[2] \div g) * b[2])
RGt(a, b) == a[1] * b[2] > b[1] * a[2]

RECURSIVE IsPowerOfTwo(_)
IsPowerOfTwo(n) == n = 1 \/ (n > 1 /\ n % 2 = 0 /\ IsPowerOfTwo(n \div 2))

\* a finite double is a binary fraction: a number that is none is the value of no
\* double, and the double computed for it differs from it
IsBinaryFraction(a) == IsPowerOfTwo(a[2])

----------------------------------------------------------------------------
(* Frame compositor: detectPoses l.94-116 *)

NoFrame ==
    [drawn |-> FALSE, srcWidth |-> 0, srcHeight |-> 0, dstWidth |-> 0, dstHeight |-> 0,
     drawWidth |-> RInt(0), drawHeight |-> RInt(0), offsetX |-> RInt(0), offsetY |-> RInt(0),
     representable |-> TRUE]

\* a plausible slip: the comparison of the aspects reversed
CompositeAspectReversed(srcWidth, srcHeight, dstWidth, dstHeight) ==
    LET videoAspect == RDiv(RInt(srcWidth), RInt(srcHeight))
        canvasAspect == RDiv(RInt(dstWidth), RInt(dstHeight))
        base == [drawn |-> TRUE, srcWidth |-> srcWidth, srcHeight |-> srcHeight,
                 dstWidth |-> dstWidth, dstHeight |-> dstHeight,
                 drawWidth |-> RInt(dstWidth), drawHeight |-> RInt(dstHeight),
                 offsetX |-> RInt(0), offsetY |-> RInt(0),
                 representable |-> TRUE]
    IN  IF RGt(canvasAspect, videoAspect)
        THEN LET drawHeight == RDiv(RInt(dstWidth), videoAspect)
             IN  [base EXCEPT !.representable = IsBinaryFraction(drawHeight),
                              !.drawHeight = drawHeight,
                              !.offsetY = RDiv(RSub(RInt(dstHeight), drawHeight), RInt(2))]
        ELSE LET drawWidth == RMul(RInt(dstHeight), videoAspect)
             IN  [base EXCEPT !.representable = IsBinaryFraction(drawWidth),
                              !.drawWidth = drawWidth,
                              !.offsetX = RDiv(RSub(RInt(dstWidth), drawWidth), RInt(2))]

\* a plausible slip: the frame stretched over the whole destination
CompositeStretched(srcWidth, srcHeight, dstWidth, dstHeight) ==
    [drawn |-> TRUE, srcWidth |-> srcWidth, srcHeight |-> srcHeight,
     dstWidth |-> dstWidth, dstHeight |-> dstHeight,
     drawWidth |-> RInt(dstWidth), drawHeight |-> RInt(dstHeight),
     offsetX |-> RInt(0), offsetY |-> RInt(0),
     representable |-> TRUE]

\* the arguments of ctx.drawImage for a source and a destination size
Composite(srcWidth, srcHeight, dstWidth, dstHeight) ==
    LET videoAspect == RDiv(RInt(srcWidth), RInt(srcHeight))
        canvasAspect == RDiv(RInt(dstWidth), RInt(dstHeight))
        base == [drawn |-> TRUE, srcWidth |-> srcWidth, srcHeight |-> srcHeight,
                 dstWidth |-> dstWidth, dstHeight |-> dstHeight,
                 drawWidth |-> RInt(dstWidth), drawHeight |-> RInt(dstHeight),
                 offsetX |-> RInt(0), offsetY |-> RInt(0),
                 representable |-> TRUE]
    IN  IF RGt(videoAspect, canvasAspect)
        THEN LET drawHeight == RDiv(RInt(dstWidth), videoAspect)
             IN  [base EXCEPT !.representable = IsBinaryFraction(drawHeight),
                              !.drawHeight = drawHeight,
                              !.offsetY = RDiv(RSub(RInt(dstHeight), drawHeight), RInt(2))]
        ELSE LET drawWidth == RMul(RInt(dstHeight), videoAspect)
             IN  [base EXCEPT !.representable = IsBinaryFraction(drawWidth),
                              !.drawWidth = drawWidth,
                              !.offsetX = RDiv(RSub(RInt(dstWidth), drawWidth), RInt(2))]

----------------------------------------------------------------------------
(* Tracking-point renderer: drawTrackingPoints, l.144-191 *)

TrackingPointThreshold == 20

\* l.162-172
connections ==
    <<<<"nose", "left_eye">>, <<"nose", "right_eye">>,
      <<"left_eye", "left_ear">>, <<"right_eye", "right_ear">>,
      <<"left_shoulder", "right_shoulder">>,
      <<"left_shoulder", "left_elbow">>, <<"left_elbow", "left_wrist">>,
      <<"right_shoulder", "right_elbow">>, <<"right_elbow", "right_wrist">>,
      <<"left_shoulder", "left_hip">>, <<"right_shoulder", "right_hip">>,
      <<"left_hip", "right_hip">>,
      <<"left_hip", "left_knee">>, <<"left_knee", "left_ankle">>,
      <<"right_hip", "right_knee">>, <<"right_knee", "right_ankle">>>>

\* Array.prototype.find by name: the first keypoint of that name, or none
NoKeypoint == [name |-> "undefined", x |-> 0, y |-> 0, score |-> 0]

Find(keypoints, name) ==
    IF \E i \in DOMAIN keypoints : keypoints[i].name = name
    THEN keypoints[CHOOSE i \in DOMAIN keypoints :
                       /\ keypoints[i].name = name
                       /\ \A j \in 1..(i - 1) : keypoints[j].name # name]
    ELSE NoKeypoint

NoTrackingPoints == [drawn |-> FALSE, poses |-> <<>>, markers |-> {}, lines |-> {}]

\* l.148: `keypoint.score && keypoint.score > 0.2`
MarkerDrawn(keypoint) == keypoint.score # 0 /\ keypoint.score > TrackingPointThreshold

\* a plausible slip: a pair is connected when the mean of its two scores passes
LineDrawnOnAverage(fromPoint, toPoint) ==
    /\ fromPoint # NoKeypoint /\ toPoint # NoKeypoint
    /\ fromPoint.score + toPoint.score > 2 * TrackingPointThreshold

\* l.178-180
LineDrawn(fromPoint, toPoint) ==
    /\ fromPoint # NoKeypoint /\ toPoint # NoKeypoint
    /\ fromPoint.score # 0 /\ toPoint.score # 0
    /\ fromPoint.score > TrackingPointThreshold /\ toPoint.score > TrackingPointThreshold

\* what one call draws: a marker (the two arcs of l.149-158) per keypoint that
\* passes, a line (l.181-186) per pair of `connections` that passes
drawTrackingPoints(poses) ==
    [drawn |-> TRUE,
     poses |-> poses,
     markers |-> UNION {{poses[p].keypoints[i] : i \in {j \in DOMAIN poses[p].keypoints :
                                                   MarkerDrawn(poses[p].keypoints[j])}} :
                        p \in DOMAIN poses},
     lines |-> UNION {{<<Find(poses[p].keypoints, connections[c][1]),
                         Find(poses[p].keypoints, connections[c][2])>> :
                          c \in {d \in DOMAIN connections :
                                   LineDrawn(Find(poses[p].keypoints, connections[d][1]),
                                             Find(poses[p].keypoints, connections[d][2]))}} :
                      p \in DOMAIN poses}]

----------------------------------------------------------------------------
(* ARGlasses, src/unnamed/part_001.  The file holds two components of that name:
   the revised one (l.1-217) and a second one (l.218-334); ARCamera imports one. *)

\* the thresholds of the eye scores, in hundredths: l.178 and l.308
EyeThreshold == 50
EyeThresholdSecond == 20

\* modelPaths, l.69-73: one candidate
modelPaths == <<"/src/assets/glass.glb">>

\* position, rotation.x (in quarter turns), rotation.z and scale of the asset.
\* rotation.z = atan2(dy, dx) is kept as the direction <<dy, dx>> in lowest terms and
\* scale = sqrt(dx^2 + dy^2) / k as its square: both are one-to-one on their range.
Transform(x, y, z, rotationX, rotationZ, scaleSquared) ==
    [position |-> <<x, y, z>>, rotationX |-> rotationX, rotationZ |-> rotationZ,
     scaleSquared |-> scaleSquared]

\* Math.atan2(dy, dx) as a direction; atan2(0, dx) = 0 for dx >= 0
Atan2(dy, dx) ==
    IF dy = 0 /\ dx >= 0
    THEN <<0, 1>>
    ELSE LET g == GCD(Abs(dy), Abs(dx)) IN <<dy \div g, dx \div g>>

\* l.126-130: scale 0.5, rotation 0, the model centred on the origin
\* l.270-271: scale 0.5, rotation.x = PI / 2
\* (a placeholder group, l.78, has the same defaults but scale 1)
InitialTransform(revised) ==
    Transform(RInt(0), RInt(0), RInt(0), IF revised THEN 0 ELSE 1, <<0, 1>>, Rat(1, 4))

PlaceholderTransform == Transform(RInt(0), RInt(0), RInt(0), 0, <<0, 1>>, RInt(1))

\* a plausible slip: the nose is not looked for
BothEyesConfidentNoNose(revised, leftEye, rightEye, nose) ==
    /\ leftEye # NoKeypoint /\ rightEye # NoKeypoint
    /\ leftEye.score # 0 /\ rightEye.score # 0
    /\ leftEye.score > (IF revised THEN EyeThreshold ELSE EyeThresholdSecond)
    /\ rightEye.score > (IF revised THEN EyeThreshold ELSE EyeThresholdSecond)

\* the condition of l.176-178, and of l.308
BothEyesConfident(revised, leftEye, rightEye, nose) ==
    /\ leftEye # NoKeypoint /\ rightEye # NoKeypoint /\ nose # NoKeypoint
    /\ leftEye.score # 0 /\ rightEye.score # 0
    /\ revised => nose.score # 0
    /\ leftEye.score > (IF revised THEN EyeThreshold ELSE EyeThresholdSecond)
    /\ rightEye.score > (IF revised THEN EyeThreshold ELSE EyeThresholdSecond)

\* a plausible slip: the vertical axis not flipped, image y taken as renderer y
EyeTransformUnflipped(revised, transform, leftEye, rightEye, canvasWidth, canvasHeight) ==
    LET centerX == Rat(leftEye.x + rightEye.x, 2)
        centerY == Rat(leftEye.y + rightEye.y, 2)
        x == RMul(RSub(RMul(RDiv(centerX, RInt(canvasWidth)), RInt(2)), RInt(1)),
                  IF revised THEN Rat(5, 2) ELSE RInt(3))
        y == RMul(RSub(RMul(RDiv(centerY, RInt(canvasHeight)), RInt(2)), RInt(1)), RInt(2))
        dx == rightEye.x - leftEye.x
        dy == rightEye.y - leftEye.y
        k == IF revised THEN 150 ELSE 200
    IN  Transform(x, y, IF revised THEN RInt(0) ELSE RInt(-2),
                  transform.rotationX, Atan2(dy, dx), Rat(dx * dx + dy * dy, k * k))

\* l.183-202, and l.309-325: the transform for a pair of eyes
EyeTransform(revised, transform, leftEye, rightEye, canvasWidth, canvasHeight) ==
    LET centerX == Rat(leftEye.x + rightEye.x, 2)
        centerY == Rat(leftEye.y + rightEye.y, 2)
        x == RMul(RSub(RMul(RDiv(centerX, RInt(canvasWidth)), RInt(2)), RInt(1)),
                  IF revised THEN Rat(5, 2) ELSE RInt(3))
        y == RMul(RSub(RInt(1), RMul(RDiv(centerY, RInt(canvasHeight)), RInt(2))), RInt(2))
        dx == rightEye.x - leftEye.x
        dy == rightEye.y - leftEye.y
        k == IF revised THEN 150 ELSE 200
    IN  Transform(x, y, IF revised THEN RInt(0) ELSE RInt(-2),
                  transform.rotationX, Atan2(dy, dx), Rat(dx * dx + dy * dy, k * k))

\* the keypoint effect, l.169-204 and l.301-329, on an asset with `transform`
Mapper(revised, transform, keypoints, canvasWidth, canvasHeight) ==
    LET leftEye == Find(keypoints, "left_eye")
        rightEye == Find(keypoints, "right_eye")
        nose == Find(keypoints, "nose")
    IN  IF BothEyesConfident(revised, leftEye, rightEye, nose)
        THEN EyeTransform(revised, transform, leftEye, rightEye, canvasWidth, canvasHeight)
        ELSE transform

\* The instance: `revised` tells which component it is, `paths` is modelPaths.length,
\* `attempted` lists the indices handed to loader.load so far, `pending` is the index
\* of the load in flight (0: none), `asset` tells what glassesRef.current holds.
\* `assetScene` tells whether that asset was added to the scene of the latest run of
\* the scene effect ("current") or to the scene of an earlier run ("earlier");
\* `adopted` counts the assets added to the current scene; `stale` holds the path
\* indices of the loads in flight that earlier runs of the scene effect started,
\* `orphans` counts the loads in flight of instances since unmounted.
NoGlasses(revised, paths) ==
    [mounted |-> FALSE, revised |-> revised, paths |-> paths, attempted |-> <<>>,
     pending |-> 0, asset |-> "none", loadError |-> NoError, keypoints |-> <<>>,
     transform |-> InitialTransform(revised),
     assetScene |-> "current", adopted |-> 0, stale |-> <<>>, orphans |-> 0]

PlaceholderMessage == "Glasses model could not be loaded - using placeholder"

\* a plausible slip: the last candidate is never tried
tryLoadModelOneShort(g, pathIndex) ==
    IF g.revised /\ pathIndex >= g.paths
    THEN [g EXCEPT !.pending = 0, !.loadError = PlaceholderMessage,
                   !.asset = "placeholder", !.transform = PlaceholderTransform,
                   !.assetScene = "current", !.adopted = @ + 1]
    ELSE [g EXCEPT !.pending = pathIndex, !.attempted = Append(g.attempted, pathIndex)]

\* tryLoadModel(pathIndex), l.111-145, with indices from 1; the second component
\* has a single loader.load (l.265) and no fallback
tryLoadModel(g, pathIndex) ==
    IF g.revised /\ pathIndex > g.paths
    THEN [g EXCEPT !.pending = 0, !.loadError = PlaceholderMessage,
                   !.asset = "placeholder", !.transform = PlaceholderTransform,
                   !.assetScene = "current", !.adopted = @ + 1]
    ELSE [g EXCEPT !.pending = pathIndex, !.attempted = Append(g.attempted, pathIndex)]

\* the scene effect (l.20-156, l.236-292) and then the keypoint effect, which
\* finds glassesRef.current null (l.170, l.302), of a new instance
Mount(revised, paths, keypoints) ==
    tryLoadModel([NoGlasses(revised, paths) EXCEPT !.mounted = TRUE,
                                                   !.keypoints = keypoints], 1)

\* a plausible slip: a loaded model does not end the chain
LoadedKeepsTrying(g) ==
    [tryLoadModel(g, g.pending + 1) EXCEPT !.asset = "model",
                                           !.transform = InitialTransform(g.revised),
                                           !.assetScene = "current", !.adopted = @ + 1]

\* the onLoad callback, l.121-134 and l.267-274
Loaded(g) ==
    [g EXCEPT !.pending = 0, !.asset = "model", !.transform = InitialTransform(g.revised),
              !.assetScene = "current", !.adopted = @ + 1]

\* the onError callback: l.138-143 tries the next path, l.278-280 only logs
LoadError(g) ==
    IF g.revised THEN tryLoadModel(g, g.pending + 1) ELSE [g EXCEPT !.pending = 0]

\* the keypoint effect of a mounted instance whose `keypoints` prop changed
KeypointEffect(g, keypoints, canvasWidth, canvasHeight) ==
    IF g.asset = "none" \/ Len(keypoints) = 0
    THEN [g EXCEPT !.keypoints = keypoints]
    ELSE [g EXCEPT !.keypoints = keypoints,
                   !.transform = Mapper(g.revised, g.transform, keypoints,
                                        canvasWidth, canvasHeight)]

\* the sequence without its i-th element
Without(seq, i) == SubSeq(seq, 1, i - 1) \o SubSeq(seq, i + 1, Len(seq))

\* canvasWidth or canvasHeight changed (deps l.166, l.299): the cleanup (l.158-165,
\* l.294-298) disposes the renderer and neither cancels the load in flight nor
\* clears glassesRef; the scene effect runs again on the same instance, with a new
\* scene and a load chain of its own
SceneEffect(g) ==
    tryLoadModel([g EXCEPT !.attempted = <<>>, !.pending = 0, !.adopted = 0,
                           !.assetScene = IF g.asset = "none" THEN @ ELSE "earlier",
                           !.stale = IF g.pending = 0 THEN @ ELSE Append(@, g.pending)], 1)

\* onLoad of a load an earlier run of the scene effect started (l.121-134,
\* l.267-274): the closure adds the model to its own scene and stores it in
\* glassesRef of the instance
StaleLoaded(g, i) ==
    [g EXCEPT !.stale = Without(@, i), !.asset = "model",
              !.transform = InitialTransform(g.revised), !.assetScene = "earlier"]

\* onError of such a load: l.138-143 tries the next path of its own chain and at
\* the end builds the placeholder in its own scene (l.112-116); l.278-280 only logs
StaleLoadError(g, i) ==
    IF ~g.revised
    THEN [g EXCEPT !.stale = Without(@, i)]
    ELSE IF g.stale[i] < g.paths
    THEN [g EXCEPT !.stale[i] = @ + 1]
    ELSE [g EXCEPT !.stale = Without(@, i), !.loadError = PlaceholderMessage,
                   !.asset = "placeholder", !.transform = PlaceholderTransform,
                   !.assetScene = "earlier"]

\* the instance is unmounted and another one mounted (part_000 l.104-110): the new
\* instance has refs of its own, the loads of the old one go on without it
Remount(g, keypoints) ==
    [Mount(g.revised, g.paths, keypoints)
        EXCEPT !.orphans = g.orphans + Len(g.stale) + (IF g.pending = 0 THEN 0 ELSE 1)]

----------------------------------------------------------------------------
(* The pixels of the canvas, l.90-135.  Every tick draws through a context of the
   one canvas of canvasRef.  `awaited`: the tick that drew the frame on the canvas
   is suspended at `await estimatePoses` (l.120); `points`: no tracking points lie
   on that frame ("none"), only those computed from it ("own"), or some that a
   tick computed from an earlier frame ("earlier"). *)

NoContent == [awaited |-> FALSE, points |-> "none"]

\* l.92 and l.109-116: clearRect over the whole canvas, then drawImage
Composited == [awaited |-> TRUE, points |-> "none"]

\* of `pending` suspended ticks, the one that settles is the tick whose frame is on
\* the canvas (`current`), or one suspended since before that frame was drawn
MaySettle(content, pending, current) ==
    IF current THEN content.awaited ELSE pending > (IF content.awaited THEN 1 ELSE 0)

\* l.133-135: the settled tick draws its tracking points, or not, on what is there
Settled(content, current, draws) ==
    [content EXCEPT !.awaited = IF current THEN FALSE ELSE @,
                    !.points = IF ~draws THEN @
                               ELSE IF current /\ @ # "earlier" THEN "own" ELSE "earlier"]

----------------------------------------------------------------------------
(* Host primitives *)

\* requestAnimationFrame returns an id no pending callback has.  Ids live only in
\* rafQueue and in requestAnimationFrameRef, and every call site overwrites the ref
\* with the id returned, so the least free id stands for a fresh one.
NewFrameId(queue) ==
    CHOOSE id \in 1..(Cardinality(queue) + 1) :
        id \notin queue /\ \A lower \in 1..(id - 1) : lower \in queue

\* cancelAnimationFrame(id): a pending callback is dropped, any other id is ignored
CancelFrame(queue, id) == queue \ {id}

Loops == Cardinality(rafQueue) + estimatePosesPending
Loads == tfReadyPending + createDetectorPending

----------------------------------------------------------------------------
(* Initial state: useState l.17-26, useRef l.28-30 *)

InitialARState ==
    [isARActive |-> FALSE,
     isModelLoading |-> FALSE,
     modelLoadError |-> NoError,
     detectedPoses |-> <<>>,
     isPersonDetected |-> FALSE,
     canvasWidth |-> DefaultCanvasWidth,
     canvasHeight |-> DefaultCanvasHeight,
     showTrackingPoints |-> TRUE]

\* detectPoses is only ever entered through initializeARModel, which is memoised
\* on [videoRef] and so keeps the startPoseDetection and detectPoses of the first
\* render: the arState that detectPoses reads at l.133 is the initial one.
ClosureShowTrackingPoints == InitialARState.showTrackingPoints

InitSession ==
    /\ arState = InitialARState
    /\ detectorRef = FALSE
    /\ requestAnimationFrameRef = NoHandle
    /\ canvasRef = NoCanvas
    /\ rafQueue = {}
    /\ tfReadyPending = 0
    /\ createDetectorPending = 0
    /\ estimatePosesPending = 0
    /\ canvasContent = NoContent
    /\ lastStep = Step("mount", <<>>, <<>>)

\* no ARGlasses instance: ARCamera l.104 renders none while isARActive is false
InitOverlay(revised) ==
    /\ glasses = NoGlasses(revised, Len(modelPaths))
    /\ loadChains = 0

Init ==
    /\ InitSession
    /\ videoRef \in Videos
    /\ frameGeometry = NoFrame
    /\ trackingPoints = NoTrackingPoints
    /\ InitOverlay(TRUE)

----------------------------------------------------------------------------
(* initializeARModel, l.37-82 *)

\* l.40: setARState(prev => ({...prev, isModelLoading: true, modelLoadError: null}))
LoadStarted(state) ==
    [state EXCEPT !.isModelLoading = TRUE, !.modelLoadError = NoError]

\* a plausible slip: the catch block leaves the loading flag set
LoadFailedStillLoading(state) ==
    [state EXCEPT !.modelLoadError = LoadErrorMessage]

\* l.76-80, the catch block
LoadFailed(state) ==
    [state EXCEPT !.isModelLoading = FALSE, !.modelLoadError = LoadErrorMessage]

\* l.65-69 (when the canvas was created in this run) and l.72
LoadSucceeded(state, canvas) ==
    [state EXCEPT !.canvasWidth = canvas[1], !.canvasHeight = canvas[2],
                  !.isModelLoading = FALSE, !.isARActive = TRUE]

\* l.60-63: `videoWidth || 640`, `videoHeight || 480`
NewCanvas(video) ==
    <<IF video.videoWidth = 0 THEN DefaultCanvasWidth ELSE video.videoWidth,
      IF video.videoHeight = 0 THEN DefaultCanvasHeight ELSE video.videoHeight>>

\* l.37-44: the call up to `await tf.ready()`; `op` names the caller's handler
initializeARModel(op, calls) ==
    IF ~videoRef.mounted
    THEN /\ lastStep' = Step(op, calls, <<>>)
         /\ UNCHANGED <<arState, tfReadyPending>>
    ELSE /\ Loads < MaxLoads
         /\ arState' = LoadStarted(arState)
         /\ tfReadyPending' = tfReadyPending + 1
         /\ lastStep' = Step(op, calls \o <<"tf.ready">>, <<>>)

\* the caller invokes the initializeARModel the hook returns (l.230)
InitializeARModel ==
    /\ initializeARModel("initializeARModel", <<>>)
    /\ UNCHANGED <<detectorRef, requestAnimationFrameRef, canvasRef, videoRef, rafQueue,
                   createDetectorPending, estimatePosesPending, frameGeometry, trackingPoints>>

\* l.44-55: tf.ready() resolves and createDetector is awaited
TfReadyResolves ==
    /\ tfReadyPending > 0
    /\ tfReadyPending' = tfReadyPending - 1
    /\ createDetectorPending' = createDetectorPending + 1
    /\ lastStep' = Step("tf.ready:resolved", <<"createDetector">>, <<>>)
    /\ UNCHANGED <<arState, detectorRef, requestAnimationFrameRef, canvasRef, videoRef,
                   rafQueue, estimatePosesPending, frameGeometry, trackingPoints>>

\* l.44, l.74-81: tf.ready() rejects
TfReadyRejects ==
    /\ tfReadyPending > 0
    /\ tfReadyPending' = tfReadyPending - 1
    /\ arState' = LoadFailed(arState)
    /\ lastStep' = Step("tf.ready:rejected", <<"console.error">>, <<>>)
    /\ UNCHANGED <<detectorRef, requestAnimationFrameRef, canvasRef, videoRef, rafQueue,
                   createDetectorPending, estimatePosesPending, frameGeometry, trackingPoints>>

\* l.55, l.74-81: createDetector rejects
CreateDetectorRejects ==
    /\ createDetectorPending > 0
    /\ createDetectorPending' = createDetectorPending - 1
    /\ arState' = LoadFailed(arState)
    /\ lastStep' = Step("createDetector:rejected", <<"console.error">>, <<>>)
    /\ UNCHANGED <<detectorRef, requestAnimationFrameRef, canvasRef, videoRef, rafQueue,
                   tfReadyPending, estimatePosesPending, frameGeometry, trackingPoints>>

\* l.55-73: createDetector resolves.  With no canvas yet, l.61 reads
\* videoRef.current.videoWidth: a TypeError when the element is gone, caught at l.74.
\* Otherwise the session becomes Active and startPoseDetection (l.193-198) runs.
CreateDetectorResolves ==
    /\ createDetectorPending > 0
    /\ createDetectorPending' = createDetectorPending - 1
    /\ detectorRef' = TRUE
    /\ IF canvasRef = NoCanvas /\ ~videoRef.mounted
       THEN /\ arState' = LoadFailed(arState)
            /\ lastStep' = Step("initializeARModel:threw", <<"console.error">>, <<>>)
            /\ UNCHANGED <<canvasRef, requestAnimationFrameRef, rafQueue>>
       ELSE LET canvas == IF canvasRef = NoCanvas THEN NewCanvas(videoRef) ELSE canvasRef
                created == IF canvasRef = NoCanvas THEN <<"createElement">> ELSE <<>>
                cancelled == IF requestAnimationFrameRef # NoHandle
                             THEN CancelFrame(rafQueue, requestAnimationFrameRef)
                             ELSE rafQueue
                cancel == IF requestAnimationFrameRef # NoHandle
                          THEN <<"cancelAnimationFrame">> ELSE <<>>
                id == NewFrameId(cancelled)
            IN  /\ Cardinality(cancelled) + estimatePosesPending < MaxLoops
                /\ canvasRef' = canvas
                /\ arState' = LoadSucceeded(arState,
                                 IF canvasRef = NoCanvas
                                 THEN canvas
                                 ELSE <<arState.canvasWidth, arState.canvasHeight>>)
                /\ rafQueue' = cancelled \cup {id}
                /\ requestAnimationFrameRef' = id
                /\ lastStep' = Step("createDetector:resolved",
                                    created \o cancel \o <<"requestAnimationFrame">>, <<>>)
    /\ UNCHANGED <<videoRef, tfReadyPending, estimatePosesPending, frameGeometry, trackingPoints>>

----------------------------------------------------------------------------
(* detectPoses, l.84-142 *)

\* a plausible slip: the readiness signal of the video is not consulted
TickPreconditionsNoReadiness ==
    /\ detectorRef
    /\ videoRef.mounted
    /\ canvasRef # NoCanvas

\* l.85, negated: detector handle, video element, readyState, canvas
TickPreconditions ==
    /\ detectorRef
    /\ videoRef.mounted
    /\ videoRef.readyState # 0
    /\ canvasRef # NoCanvas

\* a plausible slip: the person flag is only ever raised
StorePosesSticky(state, poses) ==
    [state EXCEPT !.detectedPoses = poses,
                  !.isPersonDetected = state.isPersonDetected \/ Len(poses) > 0]

\* l.125-131
StorePoses(state, poses) ==
    [state EXCEPT !.detectedPoses = poses, !.isPersonDetected = Len(poses) > 0]

\* `requestAnimationFrameRef.current = requestAnimationFrame(detectPoses)` on `queue`
Reschedule(queue) ==
    LET id == NewFrameId(queue)
    IN  /\ rafQueue' = queue \cup {id}
        /\ requestAnimationFrameRef' = id

\* The host runs the pending callback `id`: detectPoses up to its return at l.87
\* (the id requested at l.86 is a new one, other than `id` and the pending ones),
\* or up to `await estimatePoses` at l.120 (getContext('2d') of the hook's own
\* canvas yields a context).
FrameCallback(id) ==
    /\ id \in rafQueue
    /\ IF ~TickPreconditions
       THEN /\ rafQueue' = (rafQueue \ {id}) \cup {NewFrameId(rafQueue)}
            /\ requestAnimationFrameRef' = NewFrameId(rafQueue)
            /\ lastStep' = Step("detectPoses", <<"requestAnimationFrame">>, <<>>)
            /\ UNCHANGED <<estimatePosesPending, frameGeometry>>
       ELSE /\ rafQueue' = rafQueue \ {id}
            /\ frameGeometry' = Composite(videoRef.videoWidth, videoRef.videoHeight,
                                          canvasRef[1], canvasRef[2])
            /\ estimatePosesPending' = estimatePosesPending + 1
            /\ lastStep' = Step("detectPoses",
                                <<"getContext", "clearRect", "drawImage", "estimatePoses">>,
                                <<>>)
            /\ UNCHANGED requestAnimationFrameRef
    /\ UNCHANGED <<arState, detectorRef, canvasRef, videoRef, tfReadyPending,
                   createDetectorPending, trackingPoints>>

\* l.120-137: estimatePoses resolves with `poses`
EstimatePosesResolves(poses) ==
    /\ estimatePosesPending > 0
    /\ estimatePosesPending' = estimatePosesPending - 1
    /\ arState' = StorePoses(arState, poses)
    /\ Reschedule(rafQueue)
    /\ lastStep' = Step("estimatePoses:resolved",
                        (IF Len(poses) > 0 /\ ClosureShowTrackingPoints
                         THEN <<"drawTrackingPoints">> ELSE <<>>)
                        \o <<"requestAnimationFrame">>,
                        poses)
    /\ trackingPoints' = IF Len(poses) > 0 /\ ClosureShowTrackingPoints
                         THEN drawTrackingPoints(poses)
                         ELSE trackingPoints
    /\ UNCHANGED <<detectorRef, canvasRef, videoRef, tfReadyPending, createDetectorPending,
                   frameGeometry>>

\* a plausible slip: a detector failure handled like a model-load failure
EstimatePosesRejectsFatal ==
    /\ estimatePosesPending > 0
    /\ estimatePosesPending' = estimatePosesPending - 1
    /\ arState' = [arState EXCEPT !.isARActive = FALSE,
                                  !.modelLoadError = LoadErrorMessage]
    /\ lastStep' = Step("estimatePoses:rejected", <<"console.error">>, <<>>)
    /\ UNCHANGED <<detectorRef, requestAnimationFrameRef, canvasRef, videoRef, rafQueue,
                   tfReadyPending, createDetectorPending, frameGeometry, trackingPoints>>

\* a plausible slip: the catch block logs and does not request the next frame
EstimatePosesRejectsStalls ==
    /\ estimatePosesPending > 0
    /\ estimatePosesPending' = estimatePosesPending - 1
    /\ lastStep' = Step("estimatePoses:rejected", <<"console.error">>, <<>>)
    /\ UNCHANGED <<arState, detectorRef, requestAnimationFrameRef, canvasRef, videoRef,
                   rafQueue, tfReadyPending, createDetectorPending, frameGeometry,
                   trackingPoints>>

\* l.120, l.138-141: estimatePoses rejects
EstimatePosesRejects ==
    /\ estimatePosesPending > 0
    /\ estimatePosesPending' = estimatePosesPending - 1
    /\ Reschedule(rafQueue)
    /\ lastStep' = Step("estimatePoses:rejected",
                        <<"console.error", "requestAnimationFrame">>, <<>>)
    /\ UNCHANGED <<arState, detectorRef, canvasRef, videoRef, tfReadyPending,
                   createDetectorPending, frameGeometry, trackingPoints>>

----------------------------------------------------------------------------
(* toggleAR l.200-215, toggleTrackingPoints l.32-34 *)

\* l.206-211
Stopped(state) ==
    [state EXCEPT !.isARActive = FALSE, !.detectedPoses = <<>>,
                  !.isPersonDetected = FALSE]

\* toggleAR is re-created whenever isARActive changes (l.215) and the host renders
\* before it dispatches the next event, so the handler reads the current flag.
ToggleAR ==
    /\ IF arState.isARActive
       THEN /\ IF requestAnimationFrameRef # NoHandle
               THEN /\ rafQueue' = CancelFrame(rafQueue, requestAnimationFrameRef)
                    /\ requestAnimationFrameRef' = NoHandle
                    /\ lastStep' = Step("toggleAR", <<"cancelAnimationFrame">>, <<>>)
               ELSE /\ UNCHANGED <<rafQueue, requestAnimationFrameRef>>
                    /\ lastStep' = Step("toggleAR", <<>>, <<>>)
            /\ arState' = Stopped(arState)
            /\ UNCHANGED tfReadyPending
       ELSE /\ initializeARModel("toggleAR", <<>>)
            /\ UNCHANGED <<rafQueue, requestAnimationFrameRef>>
    /\ UNCHANGED <<detectorRef, canvasRef, videoRef, createDetectorPending,
                   estimatePosesPending, frameGeometry, trackingPoints>>

ToggleTrackingPoints ==
    /\ arState' = [arState EXCEPT !.showTrackingPoints = ~arState.showTrackingPoints]
    /\ lastStep' = Step("toggleTrackingPoints", <<>>, <<>>)
    /\ UNCHANGED <<detectorRef, requestAnimationFrameRef, canvasRef, videoRef, rafQueue,
                   tfReadyPending, createDetectorPending, estimatePosesPending,
                   frameGeometry, trackingPoints>>

----------------------------------------------------------------------------
(* Environment: the video element behind videoRef is mounted, unmounted, starts
   or stops delivering frames *)

VideoChanges(video) ==
    /\ video # videoRef
    /\ videoRef' = video
    /\ lastStep' = Step("video", <<>>, <<>>)
    /\ UNCHANGED <<arState, detectorRef, requestAnimationFrameRef, canvasRef, rafQueue,
                   tfReadyPending, createDetectorPending, estimatePosesPending,
                   frameGeometry, trackingPoints>>

----------------------------------------------------------------------------

\* the hook on its own: no step touches the overlay
Next ==
    \/ ToggleAR /\ UNCHANGED <<glasses, loadChains, canvasContent>>
    \/ InitializeARModel /\ UNCHANGED <<glasses, loadChains, canvasContent>>
    \/ ToggleTrackingPoints /\ UNCHANGED <<glasses, loadChains, canvasContent>>
    \/ TfReadyResolves /\ UNCHANGED <<glasses, loadChains, canvasContent>>
    \/ TfReadyRejects /\ UNCHANGED <<glasses, loadChains, canvasContent>>
    \/ CreateDetectorResolves /\ UNCHANGED <<glasses, loadChains, canvasContent>>
    \/ CreateDetectorRejects /\ UNCHANGED <<glasses, loadChains, canvasContent>>
    \/ \E id \in rafQueue : FrameCallback(id) /\ UNCHANGED <<glasses, loadChains, canvasContent>>
    \/ \E poses \in PoseResults : EstimatePosesResolves(poses) /\ UNCHANGED <<glasses, loadChains, canvasContent>>
    \/ EstimatePosesRejects /\ UNCHANGED <<glasses, loadChains, canvasContent>>
    \/ \E video \in Videos : VideoChanges(video) /\ UNCHANGED <<glasses, loadChains, canvasContent>>

Spec == Init /\ [][Next]_vars

\* a tick: the host runs a pending frame callback
Tick ==
    \E id \in rafQueue : FrameCallback(id) /\ UNCHANGED <<glasses, loadChains, canvasContent>>

\* a detector call settles
Settle ==
    \/ \E poses \in PoseResults : EstimatePosesResolves(poses) /\ UNCHANGED <<glasses, loadChains, canvasContent>>
    \/ EstimatePosesRejects /\ UNCHANGED <<glasses, loadChains, canvasContent>>

\* the detection loop from the moment a first load has succeeded (l.55-73 run once
\* from the initial state with the video element mounted: the canvas is created
\* from the video's size, the first frame is requested)
InitLive ==
    /\ videoRef \in {VideoNotReady, VideoPlaying}
    /\ canvasRef = NewCanvas(videoRef)
    /\ arState = LoadSucceeded(LoadStarted(InitialARState), canvasRef)
    /\ detectorRef = TRUE
    /\ rafQueue = {NewFrameId({})}
    /\ requestAnimationFrameRef = NewFrameId({})
    /\ tfReadyPending = 0
    /\ createDetectorPending = 0
    /\ estimatePosesPending = 0
    /\ canvasContent = NoContent
    /\ lastStep = Step("createDetector:resolved",
                       <<"createElement", "requestAnimationFrame">>, <<>>)
    /\ frameGeometry = NoFrame
    /\ trackingPoints = NoTrackingPoints
    /\ InitOverlay(TRUE)

\* the loop, the video, the tracking-point switch, and the stop of toggleAR
NextLive ==
    \/ Tick
    \/ Settle
    \/ \E video \in Videos : VideoChanges(video) /\ UNCHANGED <<glasses, loadChains, canvasContent>>
    \/ ToggleTrackingPoints /\ UNCHANGED <<glasses, loadChains, canvasContent>>
    \/ arState.isARActive /\ ToggleAR /\ UNCHANGED <<glasses, loadChains, canvasContent>>

\* the host runs every callback it holds pending, and every estimatePoses promise
\* settles; nothing is assumed of the user or the video
SpecLive == InitLive /\ [][NextLive]_vars /\ WF_vars(Tick) /\ WF_vars(Settle)

----------------------------------------------------------------------------
(* The hook with the pixels of its canvas *)

\* what a step of the hook leaves on the canvas: a tick that composites clears it
\* and draws the frame (l.92, l.109-116); a settled detector call belongs to one of
\* the suspended ticks, and its continuation draws the tracking points or not
\* (l.133-135); no other step draws
Paint ==
    IF lastStep'.op = "detectPoses"
    THEN canvasContent' = IF \E i \in DOMAIN lastStep'.calls : lastStep'.calls[i] = "drawImage"
                          THEN Composited
                          ELSE canvasContent
    ELSE IF lastStep'.op \in {"estimatePoses:resolved", "estimatePoses:rejected"}
    THEN \E current \in BOOLEAN :
            /\ MaySettle(canvasContent, estimatePosesPending, current)
            /\ canvasContent' =
                   Settled(canvasContent, current,
                           \E i \in DOMAIN lastStep'.calls :
                               lastStep'.calls[i] = "drawTrackingPoints")
    ELSE canvasContent' = canvasContent

NextCanvas ==
    \/ ToggleAR /\ Paint /\ UNCHANGED <<glasses, loadChains>>
    \/ InitializeARModel /\ Paint /\ UNCHANGED <<glasses, loadChains>>
    \/ ToggleTrackingPoints /\ Paint /\ UNCHANGED <<glasses, loadChains>>
    \/ TfReadyResolves /\ Paint /\ UNCHANGED <<glasses, loadChains>>
    \/ TfReadyRejects /\ Paint /\ UNCHANGED <<glasses, loadChains>>
    \/ CreateDetectorResolves /\ Paint /\ UNCHANGED <<glasses, loadChains>>
    \/ CreateDetectorRejects /\ Paint /\ UNCHANGED <<glasses, loadChains>>
    \/ \E id \in rafQueue : FrameCallback(id) /\ Paint /\ UNCHANGED <<glasses, loadChains>>
    \/ \E poses \in PoseResults : EstimatePosesResolves(poses) /\ Paint /\ UNCHANGED <<glasses, loadChains>>
    \/ EstimatePosesRejects /\ Paint /\ UNCHANGED <<glasses, loadChains>>
    \/ \E video \in Videos : VideoChanges(video) /\ Paint /\ UNCHANGED <<glasses, loadChains>>

SpecCanvas == Init /\ [][NextCanvas]_vars

----------------------------------------------------------------------------
(* ARCamera (part_000): the hook with the ARGlasses instance it renders *)

hookState == <<arState, detectorRef, requestAnimationFrameRef, canvasRef, videoRef, rafQueue,
               tfReadyPending, createDetectorPending, estimatePosesPending, frameGeometry,
               trackingPoints, canvasContent>>

\* a plausible slip: the overlay follows the pose only while tracking points are shown
RenderWhileTrackingPointsShown ==
    LET visible == arState'.isARActive /\ Len(arState'.detectedPoses) > 0
        chains == IF arState'.isARActive /\ ~arState.isARActive THEN 0 ELSE loadChains
    IN  IF ~visible
        THEN /\ glasses' = NoGlasses(glasses.revised, glasses.paths)
             /\ loadChains' = chains
        ELSE IF ~glasses.mounted
        THEN /\ glasses' = Mount(glasses.revised, glasses.paths,
                                 arState'.detectedPoses[1].keypoints)
             /\ loadChains' = IF chains < MaxChains THEN chains + 1 ELSE chains
        ELSE /\ glasses' = IF lastStep'.op = "estimatePoses:resolved"
                              /\ arState'.showTrackingPoints
                           THEN KeypointEffect(glasses, arState'.detectedPoses[1].keypoints,
                                               arState'.canvasWidth, arState'.canvasHeight)
                           ELSE glasses
             /\ loadChains' = chains

\* ARCamera renders after a step of the hook, l.104-110: ARGlasses exists while
\* isARActive and detectedPoses is non-empty; a new instance runs its scene effect;
\* a kept instance runs its keypoint effect when the step stored a new pose list (the
\* only steps that change the identity of detectedPoses[0].keypoints while mounted).
\* canvasWidth and canvasHeight are set before isARActive first becomes true
\* (l.65-72) and never afterwards, so the scene effect of a kept instance (deps l.166,
\* l.299) does not run again.
Render ==
    LET visible == arState'.isARActive /\ Len(arState'.detectedPoses) > 0
        chains == IF arState'.isARActive /\ ~arState.isARActive THEN 0 ELSE loadChains
    IN  IF ~visible
        THEN /\ glasses' = NoGlasses(glasses.revised, glasses.paths)
             /\ loadChains' = chains
        ELSE IF ~glasses.mounted
        THEN /\ glasses' = Mount(glasses.revised, glasses.paths,
                                 arState'.detectedPoses[1].keypoints)
             /\ loadChains' = IF chains < MaxChains THEN chains + 1 ELSE chains
        ELSE /\ glasses' = IF lastStep'.op = "estimatePoses:resolved"
                           THEN KeypointEffect(glasses, arState'.detectedPoses[1].keypoints,
                                               arState'.canvasWidth, arState'.canvasHeight)
                           ELSE glasses
             /\ loadChains' = chains

\* GLTFLoader calls onLoad of the load in flight, l.121-134 and l.267-274
AssetLoadSucceeds ==
    /\ glasses.mounted
    /\ glasses.pending # 0
    /\ glasses' = Loaded(glasses)
    /\ lastStep' = Step("loader.load:loaded", <<"scene.add">>, <<>>)
    /\ UNCHANGED <<hookState, loadChains>>

\* GLTFLoader calls onError of the load in flight, l.138-143 and l.278-280
AssetLoadFails ==
    /\ glasses.mounted
    /\ glasses.pending # 0
    /\ glasses' = LoadError(glasses)
    /\ lastStep' = Step("loader.load:error",
                        IF ~glasses.revised THEN <<"console.error">>
                        ELSE IF glasses'.pending # 0 THEN <<"console.warn", "loader.load">>
                        ELSE <<"console.warn", "console.warn", "setLoadError",
                               "createPlaceholder">>,
                        <<>>)
    /\ UNCHANGED <<hookState, loadChains>>

InitAR ==
    /\ InitSession
    /\ videoRef \in Videos
    /\ frameGeometry = NoFrame
    /\ trackingPoints = NoTrackingPoints
    /\ \E revised \in BOOLEAN : InitOverlay(revised)

\* ARCamera's controls: the live-tracking button is disabled while isModelLoading
\* (part_000 l.149-152), "Try Again" is there while modelLoadError is set (l.113-123),
\* the tracking-points button while isARActive (l.180-183); ARCamera does not call
\* initializeARModel itself
NextAR ==
    \/ (~arState.isModelLoading \/ arState.modelLoadError # NoError) /\ ToggleAR /\ Render /\ UNCHANGED canvasContent
    \/ arState.isARActive /\ ToggleTrackingPoints /\ Render /\ UNCHANGED canvasContent
    \/ TfReadyResolves /\ Render /\ UNCHANGED canvasContent
    \/ TfReadyRejects /\ Render /\ UNCHANGED canvasContent
    \/ CreateDetectorResolves /\ Render /\ UNCHANGED canvasContent
    \/ CreateDetectorRejects /\ Render /\ UNCHANGED canvasContent
    \/ \E id \in rafQueue : FrameCallback(id) /\ Render /\ UNCHANGED canvasContent
    \/ \E poses \in PoseResults : EstimatePosesResolves(poses) /\ Render /\ UNCHANGED canvasContent
    \/ EstimatePosesRejects /\ Render /\ UNCHANGED canvasContent
    \/ \E video \in Videos : VideoChanges(video) /\ Render /\ UNCHANGED canvasContent
    \/ AssetLoadSucceeds
    \/ AssetLoadFails

SpecAR == InitAR /\ [][NextAR]_vars

----------------------------------------------------------------------------
(* ARGlasses on its own: an instance just mounted in an Active session, every list
   of 1..MaxPaths candidate paths, every outcome of each load, every keypoints prop
   of OverlayKeypointLists *)

\* eye and nose confidences in hundredths around the thresholds of l.178 and l.308
EyeScores == {0, 20, 21, 50, 51, 90}
NoseScores == {0, 90}

\* the face at two places of the frame: level, and tilted with the midpoint of the
\* eyes on the centre of the 1280 x 720 canvas
FacePlacements ==
    {[nose |-> <<150, 250>>, left_eye |-> <<100, 200>>, right_eye |-> <<200, 200>>],
     [nose |-> <<640, 400>>, left_eye |-> <<590, 310>>, right_eye |-> <<690, 410>>]}

FaceKeypoints(place, present) ==
    (IF present[1] = Absent THEN <<>>
     ELSE <<Keypoint("nose", place.nose[1], place.nose[2], present[1])>>)
    \o (IF present[2] = Absent THEN <<>>
        ELSE <<Keypoint("left_eye", place.left_eye[1], place.left_eye[2], present[2])>>)
    \o (IF present[3] = Absent THEN <<>>
        ELSE <<Keypoint("right_eye", place.right_eye[1], place.right_eye[2], present[3])>>)

\* the non-empty lists among them: MoveNet reports every joint it knows
OverlayKeypointLists ==
    {FaceKeypoints(place, <<nose, leftEye, rightEye>>) :
        place \in FacePlacements,
        nose \in NoseScores \cup {Absent},
        leftEye \in EyeScores \cup {Absent},
        rightEye \in EyeScores \cup {Absent}} \ {<<>>}

\* the session right after the tick that stored the first non-empty result, PoseA,
\* the canvas created from the playing video
InitGlasses ==
    \E revised \in BOOLEAN, paths \in 1..MaxPaths :
        LET poses == <<PoseA>>
            canvas == NewCanvas(VideoPlaying)
        IN  /\ revised \/ paths = Len(modelPaths)
            /\ arState = StorePoses(LoadSucceeded(InitialARState, canvas), poses)
            /\ detectorRef = TRUE
            /\ canvasRef = canvas
            /\ videoRef = VideoPlaying
            /\ rafQueue = {1}
            /\ requestAnimationFrameRef = 1
            /\ tfReadyPending = 0
            /\ createDetectorPending = 0
            /\ estimatePosesPending = 0
            /\ frameGeometry = Composite(VideoPlaying.videoWidth, VideoPlaying.videoHeight,
                                         canvas[1], canvas[2])
            /\ trackingPoints = drawTrackingPoints(poses)
            /\ canvasContent = Settled(Composited, TRUE, TRUE)
            /\ lastStep = Step("estimatePoses:resolved",
                               <<"drawTrackingPoints", "requestAnimationFrame">>, poses)
            /\ glasses = Mount(revised, paths, PoseA.keypoints)
            /\ loadChains = 1

\* ARCamera renders the instance with another keypoints prop: the detector's next
\* non-empty result (l.125-131, part_000 l.106)
KeypointsChange(keypoints) ==
    /\ arState' = StorePoses(arState, <<[keypoints |-> keypoints]>>)
    /\ glasses' = KeypointEffect(glasses, keypoints, arState.canvasWidth, arState.canvasHeight)
    /\ lastStep' = Step("estimatePoses:resolved", <<>>, <<[keypoints |-> keypoints]>>)
    /\ UNCHANGED <<detectorRef, requestAnimationFrameRef, canvasRef, videoRef, rafQueue,
                   tfReadyPending, createDetectorPending, estimatePosesPending,
                   frameGeometry, trackingPoints, loadChains>>
    /\ UNCHANGED canvasContent

NextGlasses ==
    \/ AssetLoadSucceeds
    \/ AssetLoadFails
    \/ \E keypoints \in OverlayKeypointLists : KeypointsChange(keypoints)

SpecGlasses == InitGlasses /\ [][NextGlasses]_vars

----------------------------------------------------------------------------
(* ARGlasses under a parent that changes every prop: the canvas sizes as well *)

\* the sizes the parent may pass
CanvasSizes == {NewCanvas(VideoPlaying), NewCanvas(VideoNotReady)}

\* the keypoint lists the parent passes here
SceneKeypointLists == {PoseA.keypoints, PoseB.keypoints}

\* the parent renders other canvas sizes: cleanup, scene effect, then the keypoint
\* effect (deps l.204, l.329), which finds whatever glassesRef holds
CanvasSizeChanges(size) ==
    /\ glasses.mounted
    /\ size # <<arState.canvasWidth, arState.canvasHeight>>
    /\ Len(glasses.stale) + glasses.orphans + (IF glasses.pending = 0 THEN 0 ELSE 1) <= MaxStale
    /\ arState' = [arState EXCEPT !.canvasWidth = size[1], !.canvasHeight = size[2]]
    /\ glasses' = KeypointEffect(SceneEffect(glasses), glasses.keypoints, size[1], size[2])
    /\ loadChains' = IF loadChains < MaxChains THEN loadChains + 1 ELSE loadChains
    /\ lastStep' = Step("canvasSize", <<"renderer.dispose", "loader.load">>, <<>>)
    /\ UNCHANGED <<detectorRef, requestAnimationFrameRef, canvasRef, videoRef, rafQueue,
                   tfReadyPending, createDetectorPending, estimatePosesPending,
                   frameGeometry, trackingPoints, canvasContent>>

\* the parent drops the instance and renders a new one
Remounts(keypoints) ==
    /\ glasses.mounted
    /\ Len(glasses.stale) + glasses.orphans + (IF glasses.pending = 0 THEN 0 ELSE 1) <= MaxStale
    /\ glasses' = Remount(glasses, keypoints)
    /\ arState' = StorePoses(arState, <<[keypoints |-> keypoints]>>)
    /\ loadChains' = IF loadChains < MaxChains THEN loadChains + 1 ELSE loadChains
    /\ lastStep' = Step("remount", <<"renderer.dispose", "loader.load">>, <<>>)
    /\ UNCHANGED <<detectorRef, requestAnimationFrameRef, canvasRef, videoRef, rafQueue,
                   tfReadyPending, createDetectorPending, estimatePosesPending,
                   frameGeometry, trackingPoints, canvasContent>>

\* GLTFLoader calls onLoad of a load of a torn-down scene
StaleLoadSucceeds(i) ==
    /\ glasses.mounted
    /\ i \in DOMAIN glasses.stale
    /\ glasses' = StaleLoaded(glasses, i)
    /\ lastStep' = Step("loader.load:loaded late", <<"scene.add">>, <<>>)
    /\ UNCHANGED <<hookState, loadChains>>

\* GLTFLoader calls onError of a load of a torn-down scene
StaleLoadFails(i) ==
    /\ glasses.mounted
    /\ i \in DOMAIN glasses.stale
    /\ glasses' = StaleLoadError(glasses, i)
    /\ lastStep' = Step("loader.load:error late", <<>>, <<>>)
    /\ UNCHANGED <<hookState, loadChains>>

\* a load of an unmounted instance settles: its callbacks reach only the refs and
\* the state of that instance
OrphanLoadSettles ==
    /\ glasses.orphans > 0
    /\ glasses' = [glasses EXCEPT !.orphans = @ - 1]
    /\ lastStep' = Step("loader.load:settled unmounted", <<>>, <<>>)
    /\ UNCHANGED <<hookState, loadChains>>

NextScene ==
    \/ AssetLoadSucceeds
    \/ AssetLoadFails
    \/ \E keypoints \in SceneKeypointLists : KeypointsChange(keypoints)
    \/ \E size \in CanvasSizes : CanvasSizeChanges(size)
    \/ \E keypoints \in SceneKeypointLists : Remounts(keypoints)
    \/ \E i \in 1..MaxStale : StaleLoadSucceeds(i)
    \/ \E i \in 1..MaxStale : StaleLoadFails(i)
    \/ OrphanLoadSettles

SpecScene == InitGlasses /\ [][NextScene]_vars

----------------------------------------------------------------------------
(* The compositor on its own: every source and destination size of Dimensions *)

Dimensions == (1..MaxDim) \cup {480, 640, 720, 1280}

InitCompositor ==
    /\ InitSession
    /\ videoRef = VideoPlaying
    /\ \E sw \in Dimensions, sh \in Dimensions, dw \in Dimensions, dh \in Dimensions :
          frameGeometry = [NoFrame EXCEPT !.srcWidth = sw, !.srcHeight = sh,
                                          !.dstWidth = dw, !.dstHeight = dh]
    /\ trackingPoints = NoTrackingPoints
    /\ InitOverlay(TRUE)

\* l.94-116 applied to the sizes chosen
DrawFrame ==
    /\ ~frameGeometry.drawn
    /\ frameGeometry' = Composite(frameGeometry.srcWidth, frameGeometry.srcHeight,
                                  frameGeometry.dstWidth, frameGeometry.dstHeight)
    /\ UNCHANGED <<arState, detectorRef, requestAnimationFrameRef, canvasRef, videoRef,
                   rafQueue, tfReadyPending, createDetectorPending, estimatePosesPending,
                   trackingPoints, glasses, loadChains, lastStep>>
    /\ UNCHANGED canvasContent

NextCompositor == DrawFrame

SpecCompositor == InitCompositor /\ [][NextCompositor]_vars

----------------------------------------------------------------------------
(* The tracking-point renderer on its own: every list of keypoints over the first
   MaxJoints joints, each joint absent or present with a score of Scores *)

\* joints of the detector's output that `connections` names, l.163-165
JointNames == <<"nose", "left_eye", "right_eye", "left_ear", "right_ear", "left_shoulder">>

\* confidences in hundredths, on both sides of the thresholds 0.2 and 0.5 of the code
Scores == {0, 10, 20, 21, 50, 51, 90}

\* the keypoints of the joints 1..n that `present` gives a score, in the detector's order
RECURSIVE KeypointsOf(_, _)
KeypointsOf(present, n) ==
    IF n = 0
    THEN <<>>
    ELSE KeypointsOf(present, n - 1)
         \o (IF present[n] = Absent
             THEN <<>>
             ELSE <<Keypoint(JointNames[n], 100 * n, 50 * n, present[n])>>)

KeypointLists ==
    {KeypointsOf(present, MaxJoints) : present \in [1..MaxJoints -> Scores \cup {Absent}]}

InitTrackingPoints ==
    /\ InitSession
    /\ videoRef = VideoPlaying
    /\ frameGeometry = NoFrame
    /\ \E keypoints \in KeypointLists :
          trackingPoints = [NoTrackingPoints EXCEPT !.poses = <<[keypoints |-> keypoints]>>]
    /\ InitOverlay(TRUE)

\* l.144-191 applied to the pose chosen
DrawTrackingPoints ==
    /\ ~trackingPoints.drawn
    /\ trackingPoints' = drawTrackingPoints(trackingPoints.poses)
    /\ UNCHANGED <<arState, detectorRef, requestAnimationFrameRef, canvasRef, videoRef,
                   rafQueue, tfReadyPending, createDetectorPending, estimatePosesPending,
                   frameGeometry, glasses, loadChains, lastStep>>
    /\ UNCHANGED canvasContent

NextTrackingPoints == DrawTrackingPoints

SpecTrackingPoints == InitTrackingPoints /\ [][NextTrackingPoints]_vars

----------------------------------------------------------------------------
(* Session states as the observable flags encode them (spec 4.1) *)

Idle == ~arState.isARActive /\ ~arState.isModelLoading /\ arState.modelLoadError = NoError
ModelLoading == arState.isModelLoading /\ ~arState.isARActive
Active == arState.isARActive

\* the steps in which a run of initializeARModel enters its catch block
LoadFailureOps == {"tf.ready:rejected", "createDetector:rejected", "initializeARModel:threw"}

----------------------------------------------------------------------------
(* C1: a frame callback of the detection loop is pending only while the session
   is Active, so that after toggleAR has stopped the session no tick runs again.
   (The detector call that is in flight at the instant of the stop is not held
   against the statement; the callback its continuation requests is.) *)
C1_LoopOnlyWhileActive ==
    ~arState.isARActive => rafQueue = {}

(* C2: whenever isARActive is false, detectedPoses is empty and isPersonDetected
   is false. *)
C2_PoseClearedWhileInactive ==
    ~arState.isARActive => (arState.detectedPoses = <<>> /\ ~arState.isPersonDetected)

(* C3: at most one estimatePoses call is in flight and at most one detection
   loop (pending callback or suspended tick) exists. *)
C3_SingleDetectionInFlight ==
    estimatePosesPending <= 1 /\ Loops <= 1

(* C4: the stop operation (toggleAR) applied to an Idle session changes nothing:
   no model load begins, no tick is scheduled, no observable field changes; hence
   a second stop after the first leaves the state of the first. *)
C4_StopIsIdempotent ==
    [][(lastStep'.op = "toggleAR" /\ Idle)
         => /\ arState' = arState
            /\ tfReadyPending' = tfReadyPending
            /\ createDetectorPending' = createDetectorPending
            /\ rafQueue' = rafQueue
            /\ requestAnimationFrameRef' = requestAnimationFrameRef]_vars

(* C5: a model load that fails while the session is in ModelLoading leaves the
   session in Error: a message in modelLoadError, isModelLoading false,
   isARActive false, and no frame callback scheduled by that step. *)
C5_LoadFailureEndsInError ==
    [][(lastStep'.op \in LoadFailureOps /\ ModelLoading)
         => /\ arState'.modelLoadError # NoError
            /\ ~arState'.isModelLoading
            /\ ~arState'.isARActive
            /\ rafQueue' = rafQueue
            /\ requestAnimationFrameRef' = requestAnimationFrameRef
            /\ "requestAnimationFrame" \notin {lastStep'.calls[i] : i \in DOMAIN lastStep'.calls}]_vars

C5_Witness ==
    /\ lastStep.op \in LoadFailureOps
    /\ arState.modelLoadError = LoadErrorMessage
    /\ ~arState.isModelLoading
    /\ ~arState.isARActive
    /\ rafQueue = {}

(* C6: isARActive is never true while modelLoadError holds a message. *)
C6_NeverActiveWithError ==
    ~(arState.isARActive /\ arState.modelLoadError # NoError)

(* C7: a tick that finds the detector handle, the video element, a non-zero
   readyState or the canvas missing does no work: no canvas call, no detector
   call, no change of arState, and exactly one callback requested in place of
   the one that fired. *)
C7_UnreadyTickOnlyReschedules ==
    [][(/\ lastStep'.op = "detectPoses"
        /\ ~(/\ detectorRef
             /\ videoRef.mounted
             /\ videoRef.readyState > 0
             /\ canvasRef # NoCanvas))
         => /\ lastStep'.calls = <<"requestAnimationFrame">>
            /\ arState' = arState
            /\ estimatePosesPending' = estimatePosesPending
            /\ frameGeometry' = frameGeometry
            /\ Cardinality(rafQueue') = Cardinality(rafQueue)
            /\ requestAnimationFrameRef' \in rafQueue']_vars

C7_Witness ==
    /\ lastStep.op = "detectPoses"
    /\ lastStep.calls = <<"requestAnimationFrame">>
    /\ videoRef.readyState = 0
    /\ requestAnimationFrameRef \in rafQueue

(* C8: a rejected estimatePoses changes no field of arState (the session stays
   Active, the poses, the person flag and modelLoadError stay) and requests
   exactly one next frame callback. *)
C8_DetectorFailureNotFatal ==
    [][lastStep'.op = "estimatePoses:rejected"
         => /\ arState' = arState
            /\ Cardinality(rafQueue') = Cardinality(rafQueue) + 1
            /\ requestAnimationFrameRef' \in rafQueue'
            /\ estimatePosesPending' = estimatePosesPending - 1]_vars

C8_Witness ==
    /\ lastStep.op = "estimatePoses:rejected"
    /\ arState.isARActive
    /\ arState.isPersonDetected
    /\ requestAnimationFrameRef \in rafQueue

(* C9: right after a tick in which the detector returned a list, detectedPoses
   is that list and isPersonDetected says whether it is non-empty. *)
C9_PersonFlagFollowsResult ==
    lastStep.op = "estimatePoses:resolved"
        => /\ arState.detectedPoses = lastStep.poses
           /\ arState.isPersonDetected = (Len(lastStep.poses) > 0)

C9_Witness ==
    /\ lastStep.op = "estimatePoses:resolved"
    /\ lastStep.poses = <<>>
    /\ arState.isARActive
    /\ ~arState.isPersonDetected

(* C10: for positive sizes, a source wider than the destination (srcWidth/srcHeight
   > dstWidth/dstHeight) is drawn at full width, offsetX = 0, with drawHeight =
   dstWidth/videoAspect centred vertically; any other source is drawn at full
   height, offsetY = 0, with drawWidth = dstHeight*videoAspect centred
   horizontally.  1280x720 into 640x480 is drawn 640x360 at (0, 60). *)
C10_AspectFit ==
    frameGeometry.drawn =>
        LET g == frameGeometry
        IN  /\ IF g.srcWidth * g.dstHeight > g.dstWidth * g.srcHeight
               THEN /\ g.drawWidth = <<g.dstWidth, 1>>
                    /\ g.offsetX = <<0, 1>>
                    /\ RMul(g.drawHeight, <<g.srcWidth, g.srcHeight>>) = <<g.dstWidth, 1>>
                    /\ RMul(<<2, 1>>, g.offsetY) = RSub(<<g.dstHeight, 1>>, g.drawHeight)
               ELSE /\ g.drawHeight = <<g.dstHeight, 1>>
                    /\ g.offsetY = <<0, 1>>
                    /\ RMul(g.drawWidth, <<g.srcHeight, g.srcWidth>>) = <<g.dstHeight, 1>>
                    /\ RMul(<<2, 1>>, g.offsetX) = RSub(<<g.dstWidth, 1>>, g.drawWidth)
            /\ (g.srcWidth = 1280 /\ g.srcHeight = 720 /\ g.dstWidth = 640 /\ g.dstHeight = 480)
                 => (g.drawWidth = <<640, 1>> /\ g.drawHeight = <<360, 1>>
                     /\ g.offsetX = <<0, 1>> /\ g.offsetY = <<60, 1>>)

C10_Witness ==
    /\ frameGeometry.drawn
    /\ frameGeometry.srcWidth = 1280 /\ frameGeometry.srcHeight = 720
    /\ frameGeometry.dstWidth = 640 /\ frameGeometry.dstHeight = 480
    /\ frameGeometry.drawHeight = <<360, 1>>
    /\ frameGeometry.offsetY = <<60, 1>>

\* the rectangle of g lies inside the destination, is centred on both axes (on the
\* full axis the offset is 0) and has the aspect ratio of the source
InsideCentredSameAspect(g) ==
    /\ g.offsetX[1] >= 0 /\ g.offsetY[1] >= 0
    /\ RSub(RSub(RInt(g.dstWidth), g.drawWidth), g.offsetX)[1] >= 0
    /\ RSub(RSub(RInt(g.dstHeight), g.drawHeight), g.offsetY)[1] >= 0
    /\ RMul(RInt(2), g.offsetX) = RSub(RInt(g.dstWidth), g.drawWidth)
    /\ RMul(RInt(2), g.offsetY) = RSub(RInt(g.dstHeight), g.drawHeight)
    /\ RMul(g.drawWidth, RInt(g.srcHeight)) = RMul(g.drawHeight, RInt(g.srcWidth))

(* C11 as stated: for all positive sizes the rectangle handed to drawImage lies
   inside the destination, is centred on the free axis and satisfies
   drawWidth * srcHeight = drawHeight * srcWidth.  The values handed over are
   doubles, so this needs the rectangle of l.94-107 to be representable. *)
C11_NeverCropsOrDistorts ==
    frameGeometry.drawn =>
        /\ InsideCentredSameAspect(frameGeometry)
        /\ frameGeometry.representable

(* C11 amended: for all positive sizes the rectangle of l.94-107 evaluated in exact
   arithmetic lies inside the destination, is centred on the free axis and has
   the aspect ratio of the source; the doubles handed to drawImage are roundings
   of it. *)
C11_ExactRectangleFits ==
    frameGeometry.drawn => InsideCentredSameAspect(frameGeometry)

\* a 1x3 source in a 1x1 destination: drawWidth is 1/3, which no double equals
C11_Witness ==
    /\ frameGeometry.drawn
    /\ frameGeometry.srcWidth = 1 /\ frameGeometry.srcHeight = 3
    /\ frameGeometry.dstWidth = 1 /\ frameGeometry.dstHeight = 1
    /\ frameGeometry.drawWidth = <<1, 3>>
    /\ frameGeometry.offsetX = <<1, 3>>
    /\ ~frameGeometry.representable

\* some keypoint called `name` has a score above `threshold` hundredths
ScoreAbove(keypoints, name, threshold) ==
    \E i \in DOMAIN keypoints : keypoints[i].name = name /\ keypoints[i].score > threshold

(* C12: when the keypoint effect runs on a keypoint list in which the left_eye or
   the right_eye score is at most 0.5, or an eye is missing, the position,
   rotation and scale of the asset are afterwards what they were before. *)
C12_NoOpUnlessBothEyesConfident ==
    [][(/\ lastStep'.op = "estimatePoses:resolved"
        /\ glasses.mounted /\ glasses'.mounted
        /\ ~(ScoreAbove(glasses'.keypoints, "left_eye", 50)
             /\ ScoreAbove(glasses'.keypoints, "right_eye", 50)))
       => glasses'.transform = glasses.transform]_vars

\* a frame of the detector with no valid pose: no pose at all, or eyes not confident
NoValidPose(poses) ==
    \/ Len(poses) = 0
    \/ ~(ScoreAbove(poses[1].keypoints, "left_eye", 50)
         /\ ScoreAbove(poses[1].keypoints, "right_eye", 50))

(* C13: a frame without a valid pose (an empty pose list included) leaves the
   overlay asset in place with the position, rotation and scale it had, those of
   the most recent valid pose. *)
C13_TransformRetained ==
    [][(/\ lastStep'.op = "estimatePoses:resolved"
        /\ arState.isARActive /\ arState'.isARActive
        /\ glasses.asset # "none"
        /\ NoValidPose(lastStep'.poses))
       => (glasses'.asset = glasses.asset /\ glasses'.transform = glasses.transform)]_vars

(* C14: in the revised component every failed load of a candidate leaves the
   session and the detection loop as they were; while candidates remain the next
   one in list order is attempted; when the last of the N candidates has failed,
   the N candidates have been attempted once each in order, the placeholder is the
   asset and the warning is set. *)
C14_ExhaustionEndsInPlaceholder ==
    [][(lastStep'.op = "loader.load:error" /\ glasses.revised)
       => /\ hookState' = hookState
          /\ IF Len(glasses.attempted) < glasses.paths
             THEN /\ glasses'.attempted = Append(glasses.attempted, Len(glasses.attempted) + 1)
                  /\ glasses'.asset = "none"
                  /\ glasses'.loadError = NoError
             ELSE /\ glasses'.attempted = [i \in 1..glasses.paths |-> i]
                  /\ glasses'.pending = 0
                  /\ glasses'.asset = "placeholder"
                  /\ glasses'.loadError = PlaceholderMessage]_vars

\* three candidates, all failed
C14_Witness ==
    /\ arState.isARActive
    /\ glasses.revised
    /\ glasses.paths = 3
    /\ glasses.attempted = <<1, 2, 3>>
    /\ glasses.asset = "placeholder"
    /\ glasses.loadError = PlaceholderMessage
    /\ lastStep.op = "loader.load:error"

(* C15: a candidate is attempted only when the one before it has just failed, and
   it is the next in list order; a load that succeeds makes the loaded model the
   asset, attempts nothing further and builds no placeholder; once the asset is a
   model or the placeholder, no step attempts a candidate or replaces the asset. *)
C15_ShortCircuitAndFinality ==
    [][/\ glasses'.attempted # glasses.attempted
          => /\ lastStep'.op = "loader.load:error"
             /\ glasses.pending = Len(glasses.attempted)
             /\ glasses'.attempted = Append(glasses.attempted, glasses.pending + 1)
             /\ glasses'.pending = glasses.pending + 1
       /\ lastStep'.op = "loader.load:loaded"
          => /\ glasses'.asset = "model"
             /\ glasses'.pending = 0
             /\ glasses'.attempted = glasses.attempted
             /\ glasses'.loadError = NoError
       /\ glasses.asset # "none"
          => /\ glasses'.asset = glasses.asset
             /\ glasses'.pending = 0
             /\ glasses'.attempted = glasses.attempted]_vars

\* the second of three candidates loaded: the third is never attempted, and the
\* instance goes on following the keypoints
C15_Witness ==
    /\ glasses.paths = 3
    /\ glasses.attempted = <<1, 2>>
    /\ glasses.pending = 0
    /\ glasses.asset = "model"
    /\ glasses.loadError = NoError
    /\ lastStep.op = "estimatePoses:resolved"
    /\ glasses.transform # InitialTransform(glasses.revised)

(* C16: while the session is Active, at most one asset load chain has been started
   since it became Active. *)
C16_OneLoadChainPerActivation ==
    arState.isARActive => loadChains <= 1

(* C17: drawTrackingPoints draws a marker for a keypoint exactly when its score is
   above 0.2, and a connection for a pair of the skeleton topology exactly when
   both endpoints are present and each endpoint's own score is above 0.2. *)
C17_MarkersAndConnections ==
    trackingPoints.drawn =>
        \A p \in DOMAIN trackingPoints.poses :
            LET keypoints == trackingPoints.poses[p].keypoints
                Confident(name) ==
                    \E i \in DOMAIN keypoints :
                        keypoints[i].name = name /\ keypoints[i].score > 20
            IN  /\ \A i \in DOMAIN keypoints :
                      keypoints[i] \in trackingPoints.markers <=> keypoints[i].score > 20
                /\ \A c \in DOMAIN connections :
                      (\E line \in trackingPoints.lines :
                          line[1].name = connections[c][1] /\ line[2].name = connections[c][2])
                      <=> Confident(connections[c][1]) /\ Confident(connections[c][2])

\* nose at 0.9 and left_eye at 0.1 (mean 0.5) stay unconnected, nose and right_eye
\* at 0.21 are connected
C17_Witness ==
    /\ trackingPoints.drawn
    /\ trackingPoints.poses = <<[keypoints |-> <<Keypoint("nose", 100, 50, 90),
                                                 Keypoint("left_eye", 200, 100, 10),
                                                 Keypoint("right_eye", 300, 150, 21)>>]>>
    /\ trackingPoints.lines = {<<Keypoint("nose", 100, 50, 90),
                                 Keypoint("right_eye", 300, 150, 21)>>}
    /\ Cardinality(trackingPoints.markers) = 2

(* C18: a tick that completes while showTrackingPoints is false calls no
   drawTrackingPoints: no marker and no connection is drawn in it. *)
C18_DrawnOnlyWhenEnabled ==
    (lastStep.op = "estimatePoses:resolved" /\ ~arState.showTrackingPoints)
        => ~(\E i \in DOMAIN lastStep.calls : lastStep.calls[i] = "drawTrackingPoints")

(* C19: the position the mapper gives the asset is the normalized position of the
   canvas point where the compositor draws the eye centre, offset + centre *
   drawSize / srcSize, for whatever source size the video has. *)
C19_MapperFollowsCompositor ==
    (/\ lastStep.op = "estimatePoses:resolved"
     /\ glasses.mounted /\ glasses.asset # "none"
     /\ frameGeometry.drawn
     /\ BothEyesConfident(glasses.revised, Find(glasses.keypoints, "left_eye"),
                          Find(glasses.keypoints, "right_eye"),
                          Find(glasses.keypoints, "nose")))
    => LET g == frameGeometry
           leftEye == Find(glasses.keypoints, "left_eye")
           rightEye == Find(glasses.keypoints, "right_eye")
           drawnX == RSub(g.offsetX,
                          RSub(RInt(0), RMul(Rat(leftEye.x + rightEye.x, 2),
                                             RDiv(g.drawWidth, RInt(g.srcWidth)))))
           drawnY == RSub(g.offsetY,
                          RSub(RInt(0), RMul(Rat(leftEye.y + rightEye.y, 2),
                                             RDiv(g.drawHeight, RInt(g.srcHeight)))))
       IN  /\ glasses.transform.position[1]
                = RMul(RSub(RMul(RDiv(drawnX, RInt(g.dstWidth)), RInt(2)), RInt(1)),
                       IF glasses.revised THEN Rat(5, 2) ELSE RInt(3))
           /\ glasses.transform.position[2]
                = RMul(RSub(RInt(1), RMul(RDiv(drawnY, RInt(g.dstHeight)), RInt(2))), RInt(2))

(* C20: toggleTrackingPoints changes showTrackingPoints and nothing else of the
   session, the scheduled callback or the overlay; and whenever the keypoint effect
   runs on a loaded asset, the transform is the mapper's for that pose, whether
   tracking points are shown or not. *)
C20_ToggleTrackingPointsOnly ==
    [][/\ lastStep'.op = "toggleTrackingPoints"
          => /\ arState' = [arState EXCEPT !.showTrackingPoints = ~arState.showTrackingPoints]
             /\ requestAnimationFrameRef' = requestAnimationFrameRef
             /\ rafQueue' = rafQueue
             /\ glasses' = glasses
       /\ (/\ lastStep'.op = "estimatePoses:resolved"
           /\ glasses.mounted /\ glasses'.mounted
           /\ glasses.asset # "none")
          => glasses'.transform = Mapper(glasses.revised, glasses.transform,
                                         lastStep'.poses[1].keypoints,
                                         arState.canvasWidth, arState.canvasHeight)]_vars

\* tracking points hidden, and the asset has just been moved to PoseA
C20_Witness ==
    /\ ~arState.showTrackingPoints
    /\ lastStep.op = "estimatePoses:resolved"
    /\ lastStep.poses = <<PoseA>>
    /\ glasses.asset = "model"
    /\ glasses.transform # InitialTransform(glasses.revised)

(* C21: a model load that succeeds while the session is in ModelLoading makes it
   Active (isARActive true, isModelLoading false), cancels the callback the handle
   names and requests one, and leaves exactly one frame callback pending. *)
C21_LoadSuccessStartsLoop ==
    [][(ModelLoading /\ lastStep'.op = "createDetector:resolved")
       => /\ arState'.isARActive /\ ~arState'.isModelLoading
          /\ requestAnimationFrameRef' \in rafQueue'
          /\ rafQueue' \ {requestAnimationFrameRef'} = rafQueue \ {requestAnimationFrameRef}
          /\ Cardinality(rafQueue') = 1]_vars

(* C22: if the session stays Active from some point on, ticks keep happening for
   ever: each tick, whether it found its preconditions unmet, succeeded or failed,
   is followed by another one. *)
C22_LoopNeverStalls ==
    <>[]Active => []<><<Tick>>_vars

\* a tick has failed and the next one is requested, the session Active
C22_Witness ==
    /\ Active
    /\ lastStep.op = "estimatePoses:rejected"
    /\ requestAnimationFrameRef \in rafQueue

\* the keypoint of that name is in the list
Present(keypoints, name) == Find(keypoints, name) # NoKeypoint

\* what the claim says the mapper sets, for the constants of l.187-201:
\* K_X = 2.5, K_Y = 2, K_SCALE = 150.  The centre of the canvas gives (0, 0); the
\* rotation is the direction of the eye-to-eye vector; the one scale (l.202 hands
\* it to all three axes) is the interocular distance over K_SCALE.
SetFromEyes(transform, keypoints, canvasWidth, canvasHeight) ==
    LET leftEye == Find(keypoints, "left_eye")
        rightEye == Find(keypoints, "right_eye")
        dx == rightEye.x - leftEye.x
        dy == rightEye.y - leftEye.y
    IN  /\ transform.position[1] = Rat(5 * (leftEye.x + rightEye.x - canvasWidth),
                                       2 * canvasWidth)
        /\ transform.position[2] = Rat(2 * (canvasHeight - (leftEye.y + rightEye.y)),
                                       canvasHeight)
        /\ (leftEye.x + rightEye.x = canvasWidth /\ leftEye.y + rightEye.y = canvasHeight)
               => (transform.position[1] = RInt(0) /\ transform.position[2] = RInt(0))
        /\ transform.rotationZ[1] * dx = transform.rotationZ[2] * dy
        /\ transform.rotationZ[1] * dy >= 0 /\ transform.rotationZ[2] * dx >= 0
        /\ transform.rotationZ # <<0, 0>>
        /\ (dy = 0 /\ dx > 0) => transform.rotationZ = <<0, 1>>
        /\ RMul(transform.scaleSquared, RInt(150 * 150)) = RInt(dx * dx + dy * dy)
        /\ (leftEye.x = 100 /\ leftEye.y = 200 /\ rightEye.x = 200 /\ rightEye.y = 200)
               => transform.scaleSquared = Rat(100 * 100, 150 * 150)

(* C23, as stated: whenever the keypoint effect of the revised component runs on an
   adopted asset with both eye scores above 0.5 and a nose in the list, the asset's
   position, rotation.z and scale are afterwards the ones of the formulas. *)
C23_MapperSetsTransform ==
    [][(/\ lastStep'.op = "estimatePoses:resolved"
        /\ glasses.mounted /\ glasses'.mounted /\ glasses.revised
        /\ glasses.asset # "none"
        /\ ScoreAbove(glasses'.keypoints, "left_eye", 50)
        /\ ScoreAbove(glasses'.keypoints, "right_eye", 50)
        /\ Present(glasses'.keypoints, "nose"))
       => SetFromEyes(glasses'.transform, glasses'.keypoints,
                  arState.canvasWidth, arState.canvasHeight)]_vars

(* C23, amended: the same, for a nose in the list whose score is neither 0 nor
   missing. *)
C23_MapperSetsTransformScoredNose ==
    [][(/\ lastStep'.op = "estimatePoses:resolved"
        /\ glasses.mounted /\ glasses'.mounted /\ glasses.revised
        /\ glasses.asset # "none"
        /\ ScoreAbove(glasses'.keypoints, "left_eye", 50)
        /\ ScoreAbove(glasses'.keypoints, "right_eye", 50)
        /\ ScoreAbove(glasses'.keypoints, "nose", 0))
       => SetFromEyes(glasses'.transform, glasses'.keypoints,
                  arState.canvasWidth, arState.canvasHeight)]_vars

\* the example of the claim, mapped: level eyes at (100,200) and (200,200)
C23_Witness ==
    /\ lastStep.op = "estimatePoses:resolved"
    /\ glasses.mounted /\ glasses.revised /\ glasses.asset = "model"
    /\ ScoreAbove(glasses.keypoints, "left_eye", 50)
    /\ ScoreAbove(glasses.keypoints, "right_eye", 50)
    /\ ScoreAbove(glasses.keypoints, "nose", 0)
    /\ Find(glasses.keypoints, "left_eye").x = 100
    /\ glasses.transform.rotationZ = <<0, 1>>
    /\ glasses.transform.scaleSquared = Rat(100 * 100, 150 * 150)

\* the list with its nose keypoint replaced by `nose`
WithNose(keypoints, nose) ==
    [i \in DOMAIN keypoints |->
        IF keypoints[i].name = "nose" THEN nose ELSE keypoints[i]]

\* a nose at another place of the frame, of every score
Noses == {Keypoint("nose", 0, 0, score) : score \in NoseScores}

(* C24, as stated: the nose counts by its presence only.  Whenever the keypoint
   effect of the revised component runs on an adopted asset: without a nose in the
   list the transform stays what it was, and with one the outcome is the outcome
   for the list with any other nose in its place. *)
C24_NosePresenceOnly ==
    [][(/\ lastStep'.op = "estimatePoses:resolved"
        /\ glasses.mounted /\ glasses'.mounted /\ glasses.revised
        /\ glasses.asset # "none")
       => IF Present(glasses'.keypoints, "nose")
          THEN \A nose \in Noses :
                   glasses'.transform =
                       Mapper(TRUE, glasses.transform, WithNose(glasses'.keypoints, nose),
                              arState.canvasWidth, arState.canvasHeight)
          ELSE glasses'.transform = glasses.transform]_vars

(* C24, amended: the nose counts by its presence and by whether its score is
   non-zero, never by its x, its y or the value of a non-zero score. *)
C24_NosePresenceAndScoreOnly ==
    [][(/\ lastStep'.op = "estimatePoses:resolved"
        /\ glasses.mounted /\ glasses'.mounted /\ glasses.revised
        /\ glasses.asset # "none")
       => IF Present(glasses'.keypoints, "nose")
          THEN \A nose \in Noses :
                   (nose.score # 0) = (Find(glasses'.keypoints, "nose").score # 0)
                   => glasses'.transform =
                          Mapper(TRUE, glasses.transform, WithNose(glasses'.keypoints, nose),
                                 arState.canvasWidth, arState.canvasHeight)
          ELSE glasses'.transform = glasses.transform]_vars

\* both eyes confident, no nose: the loaded model stays at its initial transform
C24_Witness ==
    /\ lastStep.op = "estimatePoses:resolved"
    /\ glasses.mounted /\ glasses.revised /\ glasses.asset = "model"
    /\ ~Present(glasses.keypoints, "nose")
    /\ ScoreAbove(glasses.keypoints, "left_eye", 50)
    /\ ScoreAbove(glasses.keypoints, "right_eye", 50)
    /\ glasses.transform = InitialTransform(TRUE)

\* in a sequence of calls, every `later` comes after a `sooner`
Precedes(calls, sooner, later) ==
    \A j \in DOMAIN calls :
        calls[j] = later => \E i \in 1..(j - 1) : calls[i] = sooner

(* C25: a tick that composites clears the canvas before it draws the frame; the
   tracking points a tick draws go on a canvas whose frame was drawn before; and
   the canvas never shows tracking points computed from an earlier frame than the
   one it shows, whatever the interleaving of ticks. *)
C25_ClearedThenDrawnNoGhost ==
    [][/\ (lastStep'.op = "detectPoses" => Precedes(lastStep'.calls, "clearRect", "drawImage"))
       /\ (lastStep'.op = "estimatePoses:resolved"
           /\ \E i \in DOMAIN lastStep'.calls : lastStep'.calls[i] = "drawTrackingPoints")
          => frameGeometry.drawn
       /\ canvasContent'.points # "earlier"]_vars

(* C26: in every reachable state, whatever the sequence of toggleAR calls,
   initializeARModel calls and completions of model loads, isModelLoading and
   isARActive are not both true. *)
C26_LoadingAndActiveExclusive ==
    ~(arState.isModelLoading /\ arState.isARActive)

(* C27: the asset glassesRef holds, the one the mapper writes to, is an asset of the
   current scene, also after the scene was torn down and rebuilt with a load in
   flight and after the late completion of that load; and a scene adopts at most
   one asset. *)
C27_HandleOfCurrentScene ==
    (glasses.mounted /\ glasses.asset # "none")
        => (glasses.assetScene = "current" /\ glasses.adopted <= 1)
====
